---- MODULE Spec2Model ----
(***************************************************************************)
(* Model of src/app.py: the Dash customer-intelligence dashboard.          *)
(*                                                                         *)
(* The module-level code (load of data/leads.csv, the derived column, the  *)
(* layout) is a sequence of steps driven by pc; once the layout is built   *)
(* the process serves, and the callbacks run against the loaded table df   *)
(* with the widget values the browser holds (sel).                         *)
(*                                                                         *)
(* A table is a sequence of rows; a row is a function from the column      *)
(* names of the CSV to values.  Dates are day numbers.  A missing numeric  *)
(* cell is NaN, a missing date is NaT; comparisons with either are false,  *)
(* as in pandas.                                                           *)
(***************************************************************************)
EXTENDS Integers, Sequences, FiniteSets, TLC

VARIABLES pc, fileExists, csv, df, layout, out

vars == <<pc, fileExists, csv, df, layout, out>>

---------------------------------------------------------------------------
(* Bounds of the model *)

MaxRows == 3

MaxActive == 2

---------------------------------------------------------------------------
(* Values *)

\* Python None for an integer-valued argument (dates are >= 1, clicks >= 1)
None == 0

\* Python None delivered by a cleared dropdown
NoneStr == "<None>"

\* pandas missing number
NaN == -1

\* pandas missing timestamp
NaT == -1

HighValueThreshold == 3000

MediumValueThreshold == 1500

RATE == "Rate / Quote Requested ($)"

DISTANCE == "Distance to be Covered (Km)"

DATE == "Date of Inquiry"

INDUSTRY == "Industry Type"

SHIPMENT == "Shipment Requirement"

COMMODITY == "Product / Commodity Type"

PRIORITY == "Priority Level"

SOURCE == "Source Location / Country"

DEST == "Destination Location / Country"

STATUS == "Status"

RATECAT == "Rate Category"

\* The columns of data/leads.csv that the program names
CsvColumns ==
    {"Customer ID", "Company Name", "Contact Person Name", "Email", "Phone",
     SHIPMENT, COMMODITY, INDUSTRY, SOURCE, DEST, DISTANCE, RATE, DATE,
     PRIORITY, STATUS, "Expected Ship Date", "Follow Up Date"}

\* One record of the CSV
Record(id, industry, priority, rate, date, status, shipment, commodity, source, dest, distance) ==
    [c \in CsvColumns |->
        CASE c = "Customer ID" -> id
          [] c = "Company Name" -> "Company " \o ToString(id)
          [] c = "Contact Person Name" -> "Contact " \o ToString(id)
          [] c = "Email" -> "c" \o ToString(id) \o "@example.com"
          [] c = "Phone" -> "555-000" \o ToString(id)
          [] c = SHIPMENT -> shipment
          [] c = COMMODITY -> commodity
          [] c = INDUSTRY -> industry
          [] c = SOURCE -> source
          [] c = DEST -> dest
          [] c = DISTANCE -> distance
          [] c = RATE -> rate
          [] c = DATE -> date
          [] c = PRIORITY -> priority
          [] c = STATUS -> status
          [] c = "Expected Ship Date" -> IF date = NaT THEN NaT ELSE date + 7
          [] c = "Follow Up Date" -> IF date = NaT THEN NaT ELSE date + 1]

\* The records a CSV file is drawn from
Pool ==
    { Record(1, "Tech",   "Low",    1000, 1,   "New",         "Air", "Steel", "India", "USA", 500),
      Record(2, "Retail", "High",   2000, 2,   "Closed Won",  "Sea", "Grain", "China", "USA", 1200),
      Record(3, "Tech",   "Urgent", 3000, 3,   "Negotiating", "Air", "Grain", "India", "UK",  700),
      Record(4, "Retail", "Low",    1500, NaT, "Closed Won",  "Sea", "Steel", "China", "UK",  300),
      Record(5, "Tech",   "High",   NaN,  2,   "New",         "Sea", "Steel", "India", "USA", 900) }

\* The files: up to MaxRows records, each customer at most once
Tables ==
    UNION { { t \in [1..n -> Pool] : \A i, j \in 1..n : t[i] = t[j] => i = j } : n \in 0..MaxRows }

\* pd.DataFrame(): no rows and no columns
EmptyFrame == [columns |-> {}, rows |-> <<>>]

\* DataFrame.empty
IsEmpty(d) == d.columns = {} \/ Len(d.rows) = 0

---------------------------------------------------------------------------
(* pandas and Python primitives used by the program *)

\* a >= b on a numeric column: false when either side is missing
Ge(a, b) == a # NaN /\ b # NaN /\ a >= b

\* a <= b on a numeric column: false when either side is missing
Le(a, b) == a # NaN /\ b # NaN /\ a <= b

\* Python truthiness of a date argument (None is falsy)
Truthy(x) == x # None

\* Series.min(): missing values are skipped; NaN when nothing is left
ColMin(rows, col) ==
    LET vs == { rows[i][col] : i \in 1..Len(rows) } \ {NaN}
    IN  IF vs = {} THEN NaN ELSE CHOOSE v \in vs : \A w \in vs : v <= w

\* Series.max(): missing values are skipped; NaN when nothing is left
ColMax(rows, col) ==
    LET vs == { rows[i][col] : i \in 1..Len(rows) } \ {NaN}
    IN  IF vs = {} THEN NaN ELSE CHOOSE v \in vs : \A w \in vs : v >= w

\* Series.unique() as a set
Unique(rows, col) == { rows[i][col] : i \in 1..Len(rows) }

RECURSIVE SumSkipNa(_, _)
\* Series.sum(): missing values are skipped
SumSkipNa(rows, col) ==
    IF rows = <<>> THEN 0
    ELSE (IF Head(rows)[col] = NaN THEN 0 ELSE Head(rows)[col]) + SumSkipNa(Tail(rows), col)

\* number of rows whose col is not missing
CountNotNa(rows, col) == Len(SelectSeq(rows, LAMBDA r : r[col] # NaN))

\* number of rows whose col is one of vals (Series.isin)
CountIsin(rows, col, vals) == Len(SelectSeq(rows, LAMBDA r : r[col] \in vals))

\* number of rows whose col equals v
CountEq(rows, col, v) == Len(SelectSeq(rows, LAMBDA r : r[col] = v))

\* Series.value_counts(): the count of every value that occurs
ValueCounts(rows, col) == [v \in Unique(rows, col) |-> CountEq(rows, col, v)]

\* groupby(col).size(): as value_counts, rows with a missing key are dropped
GroupSize(rows, col) == [v \in Unique(rows, col) \ {NaT} |-> CountEq(rows, col, v)]

\* Python's order on the strings of the Industry Type column
StrRank(s) == CASE s = "Retail" -> 1 [] s = "Tech" -> 2

\* Series.mode(): the most frequent values, in sorted order
ModeSorted(rows, col) ==
    LET vs == Unique(rows, col)
        top == { v \in vs : \A w \in vs : CountEq(rows, col, v) >= CountEq(rows, col, w) }
    IN  [i \in 1..Cardinality(top) |->
            CHOOSE v \in top : Cardinality({ w \in top : StrRank(w) < StrRank(v) }) = i - 1]

(* float64 values.  A non-negative double below 2^31 is written exactly as its
   integer part and the binary digits after the point, most significant first;
   at most 53 digits are significant.  nan is the value with integer part NaN. *)
FloatOfInt(n) == [int |-> n, frac |-> <<>>]

FloatNaN == [int |-> NaN, frac |-> <<>>]

RECURSIVE BitLength(_)
\* the number of binary digits of a natural number
BitLength(n) == IF n = 0 THEN 0 ELSE 1 + BitLength(n \div 2)

\* the number of digits from the leading 1 to the last digit written
SigBits(x) ==
    IF x.int > 0 THEN BitLength(x.int) + Len(x.frac)
    ELSE IF \A i \in 1..Len(x.frac) : x.frac[i] = 0 THEN 0
    ELSE Len(x.frac) + 1 - (CHOOSE i \in 1..Len(x.frac) :
                               /\ x.frac[i] = 1
                               /\ \A j \in 1..(i - 1) : x.frac[j] = 0)

\* x plus one unit in its last written digit
NextUp(x) ==
    IF \A i \in 1..Len(x.frac) : x.frac[i] = 1
    THEN [int |-> x.int + 1, frac |-> [i \in 1..Len(x.frac) |-> 0]]
    ELSE LET k == CHOOSE k \in 1..Len(x.frac) :
                      /\ x.frac[k] = 0
                      /\ \A j \in (k + 1)..Len(x.frac) : x.frac[j] = 1
         IN  [int |-> x.int,
              frac |-> [i \in 1..Len(x.frac) |->
                           IF i < k THEN x.frac[i] ELSE IF i = k THEN 1 ELSE 0]]

\* IEEE 754 round-to-nearest, ties to even, to 53 significant digits
RoundToDouble(x) ==
    LET extra == SigBits(x) - 53
        keep == Len(x.frac) - extra
        kept == [int |-> x.int, frac |-> SubSeq(x.frac, 1, keep)]
        lsb == IF keep = 0 THEN x.int % 2 ELSE x.frac[keep]
        sticky == \E i \in (keep + 2)..Len(x.frac) : x.frac[i] = 1
    IN  IF extra <= 0 THEN x
        ELSE IF x.frac[keep + 1] = 1 /\ (sticky \/ lsb = 1) THEN NextUp(kept)
        ELSE kept

RECURSIVE DivBits(_, _, _, _)
\* the binary digits of r / den (r < den) up to `need` significant ones, followed by
\* a 1 when the quotient goes on after them
DivBits(r, den, need, started) ==
    IF r = 0 THEN <<>>
    ELSE IF need = 0 THEN <<1>>
    ELSE LET b == IF 2 * r >= den THEN 1 ELSE 0
             s == started \/ b = 1
         IN  <<b>> \o DivBits(2 * r - b * den, den, IF s THEN need - 1 ELSE need, s)

\* the float64 quotient of two integers, den > 0
FloatDiv(num, den) ==
    LET q == num \div den
    IN  RoundToDouble([int |-> q,
                       frac |-> DivBits(num % den, den, 54 - BitLength(q), q > 0)])

RECURSIVE MulBits(_, _, _, _, _)
\* the digits after the point times m, from the last digit to the first: the digits
\* of the product after the point and the carry into its integer part
MulBits(digits, m, i, c, acc) ==
    IF i = 0 THEN [carry |-> c, frac |-> acc]
    ELSE MulBits(digits, m, i - 1, (m * digits[i] + c) \div 2,
                 <<(m * digits[i] + c) % 2>> \o acc)

\* the exact product of x and a small natural number
ExactMul(x, m) ==
    LET p == MulBits(x.frac, m, Len(x.frac), 0, <<>>)
    IN  [int |-> m * x.int + p.carry, frac |-> p.frac]

\* the float64 product of x and a small natural number
FloatMul(x, m) == RoundToDouble(ExactMul(x, m))

\* x * scale rounded to the nearest integer, ties to even: the digits the format
\* specs ".1f" (scale 10) and ".2f" (scale 100) print for the exact value of x
RoundHalfEven(x, scale) ==
    LET y == ExactMul(x, scale)
        half == Len(y.frac) > 0 /\ y.frac[1] = 1
        more == \E i \in 2..Len(y.frac) : y.frac[i] = 1
    IN  IF ~half THEN y.int
        ELSE IF more \/ y.int % 2 = 1 THEN y.int + 1
        ELSE y.int

\* three digits, zero padded
Pad3(n) == IF n < 10 THEN "00" \o ToString(n) ELSE IF n < 100 THEN "0" \o ToString(n) ELSE ToString(n)

RECURSIVE Commas(_)
\* format spec "," : thousands separators
Commas(n) == IF n < 1000 THEN ToString(n) ELSE Commas(n \div 1000) \o "," \o Pad3(n % 1000)

\* f"{n:,}" for an integer
FormatInt(n) == Commas(n)

\* f"${x:,.2f}" for a float or the int 0
FormatMoney(x) ==
    IF x = FloatNaN THEN "$nan"
    ELSE LET cents == RoundHalfEven(x, 100)
             frac == cents % 100
         IN  "$" \o Commas(cents \div 100) \o "." \o
             (IF frac < 10 THEN "0" ELSE "") \o ToString(frac)

\* f"{x:,.0f}" for an integer-valued sum
FormatFloat0(n) == Commas(n)

\* f"{x:.1f}%" for a float or the int 0
FormatPercent1(x) ==
    LET tenths == RoundHalfEven(x, 10)
    IN  ToString(tenths \div 10) \o "." \o ToString(tenths % 10) \o "%"

\* Series.mean(): the float64 sum of the values present over their number, nan when
\* none is present
Mean(rows, col) ==
    IF CountNotNa(rows, col) = 0 THEN FloatNaN
    ELSE FloatDiv(SumSkipNa(rows, col), CountNotNa(rows, col))

---------------------------------------------------------------------------
(* The derived column *)

\* categorize_rate with the thresholds exclusive
categorize_rate_Exclusive(rate) ==
    IF rate # NaN /\ rate > HighValueThreshold THEN "High Value"
    ELSE IF rate # NaN /\ rate > MediumValueThreshold THEN "Medium Value"
    ELSE "Low Value"

\* lines 41-47
categorize_rate(rate) ==
    IF Ge(rate, HighValueThreshold) THEN "High Value"
    ELSE IF Ge(rate, MediumValueThreshold) THEN "Medium Value"
    ELSE "Low Value"

\* df['Rate Category'] = df[RATE].apply(categorize_rate)
WithRateCategory(rows) ==
    [i \in 1..Len(rows) |->
        [c \in DOMAIN rows[i] \cup {RATECAT} |->
            IF c = RATECAT THEN categorize_rate(rows[i][RATE]) ELSE rows[i][c]]]

---------------------------------------------------------------------------
(* apply_filters *)

\* one dropdown: filtered_df[filtered_df[col] == value] unless value is 'All'
FilterCategory(rows, col, value) ==
    IF value # "All" THEN SelectSeq(rows, LAMBDA r : r[col] = value) ELSE rows

\* FilterRate with the upper end of the range excluded
FilterRate_ExclusiveUpper(rows, rate_range) ==
    SelectSeq(rows, LAMBDA r : Ge(r[RATE], rate_range[1])
                               /\ Le(r[RATE], rate_range[2]) /\ r[RATE] # rate_range[2])

\* the rate range, applied always
FilterRate(rows, rate_range) ==
    SelectSeq(rows, LAMBDA r : Ge(r[RATE], rate_range[1]) /\ Le(r[RATE], rate_range[2]))

\* FilterDate applying each end of the range that is given
FilterDate_EachEnd(rows, start_date, end_date) ==
    SelectSeq(rows, LAMBDA r : /\ Truthy(start_date) => Ge(r[DATE], start_date)
                               /\ Truthy(end_date) => Le(r[DATE], end_date))

\* the date range, applied when both ends are truthy
FilterDate(rows, start_date, end_date) ==
    IF Truthy(start_date) /\ Truthy(end_date)
    THEN SelectSeq(rows, LAMBDA r : Ge(r[DATE], start_date) /\ Le(r[DATE], end_date))
    ELSE rows

RECURSIVE KeepByPosition(_, _, _)
\* the rows at the positions from j on where the mask, taken on another frame, is true
KeepByPosition(rows, mask, j) ==
    IF j > Len(rows) THEN <<>>
    ELSE (IF j <= Len(mask) /\ mask[j] THEN <<rows[j]>> ELSE <<>>)
         \o KeepByPosition(rows, mask, j + 1)

\* apply_filters with the destination dropdown compared with the source column
apply_filters_DestinationOnSource(d, s) ==
    IF IsEmpty(d) THEN d.rows
    ELSE LET f1 == FilterCategory(d.rows, INDUSTRY, s.industry_filter)
             f2 == FilterCategory(f1, SHIPMENT, s.shipment_filter)
             f3 == FilterCategory(f2, COMMODITY, s.commodity_filter)
             f4 == FilterCategory(f3, PRIORITY, s.priority_filter)
             f5 == FilterCategory(f4, SOURCE, s.source_country_filter)
             f6 == FilterCategory(f5, SOURCE, s.destination_country_filter)
             f7 == FilterRate(f6, s.rate_range)
         IN  FilterDate(f7, s.start_date, s.end_date)

\* apply_filters with the rate mask computed on df and applied by position
apply_filters_PositionalMask(d, s) ==
    IF IsEmpty(d) THEN d.rows
    ELSE LET f1 == FilterCategory(d.rows, INDUSTRY, s.industry_filter)
             f2 == FilterCategory(f1, SHIPMENT, s.shipment_filter)
             f3 == FilterCategory(f2, COMMODITY, s.commodity_filter)
             f4 == FilterCategory(f3, PRIORITY, s.priority_filter)
             f5 == FilterCategory(f4, SOURCE, s.source_country_filter)
             f6 == FilterCategory(f5, DEST, s.destination_country_filter)
             mask == [i \in 1..Len(d.rows) |->
                         Ge(d.rows[i][RATE], s.rate_range[1])
                         /\ Le(d.rows[i][RATE], s.rate_range[2])]
             f7 == KeepByPosition(f6, mask, 1)
         IN  FilterDate(f7, s.start_date, s.end_date)

\* the rows of the frame apply_filters returns for the widget values s
apply_filters(d, s) ==
    IF IsEmpty(d) THEN d.rows
    ELSE LET f1 == FilterCategory(d.rows, INDUSTRY, s.industry_filter)
             f2 == FilterCategory(f1, SHIPMENT, s.shipment_filter)
             f3 == FilterCategory(f2, COMMODITY, s.commodity_filter)
             f4 == FilterCategory(f3, PRIORITY, s.priority_filter)
             f5 == FilterCategory(f4, SOURCE, s.source_country_filter)
             f6 == FilterCategory(f5, DEST, s.destination_country_filter)
             f7 == FilterRate(f6, s.rate_range)
         IN  FilterDate(f7, s.start_date, s.end_date)

\* apply_filters narrowing the module's frame itself instead of a copy
FrameAfterFilters_InPlace(d, s) == [d EXCEPT !.rows = apply_filters(d, s)]

\* line 359: the filters run on df.copy() and rebind a local name, so the module's
\* frame after a call of apply_filters is the frame before it
FrameAfterFilters(d, s) == d

---------------------------------------------------------------------------
(* The callbacks, as functions of the loaded frame d and the widget values s *)

\* high_priority counting High only
high_priority_HighOnly(filtered_df) ==
    IF Len(filtered_df) > 0 THEN CountIsin(filtered_df, PRIORITY, {"High"}) ELSE 0

\* line 422: the rows whose priority is High or Urgent
high_priority(filtered_df) ==
    IF Len(filtered_df) > 0 THEN CountIsin(filtered_df, PRIORITY, {"High", "Urgent"}) ELSE 0

\* top_industry taking, among the most frequent values, the one met first in the rows
top_industry_FirstSeen(filtered_df) ==
    IF Len(filtered_df) > 0
    THEN LET modes == { ModeSorted(filtered_df, INDUSTRY)[k] :
                            k \in 1..Len(ModeSorted(filtered_df, INDUSTRY)) }
             first == CHOOSE i \in 1..Len(filtered_df) :
                          /\ filtered_df[i][INDUSTRY] \in modes
                          /\ \A j \in 1..(i - 1) : filtered_df[j][INDUSTRY] \notin modes
         IN  filtered_df[first][INDUSTRY]
    ELSE "N/A"

\* line 423: mode().iloc[0] of the Industry Type column
top_industry(filtered_df) ==
    IF Len(filtered_df) > 0 THEN ModeSorted(filtered_df, INDUSTRY)[1] ELSE "N/A"

\* conversion_rate counting Closed Won only
conversion_rate_ClosedWonOnly(filtered_df) ==
    IF Len(filtered_df) > 0
    THEN FormatPercent1(FloatMul(FloatDiv(CountIsin(filtered_df, STATUS, {"Closed Won"}),
                                          Len(filtered_df)), 100))
    ELSE FormatPercent1(FloatOfInt(0))

\* line 424 and its format on line 432: the share of converted rows, in percent
conversion_rate(filtered_df) ==
    IF Len(filtered_df) > 0
    THEN FormatPercent1(FloatMul(FloatDiv(CountIsin(filtered_df, STATUS,
                                                    {"Closed Won", "Negotiating"}),
                                          Len(filtered_df)), 100))
    ELSE FormatPercent1(FloatOfInt(0))

\* line 420 and its format on line 428: the mean rate
avg_rate(filtered_df) ==
    IF Len(filtered_df) > 0
    THEN FormatMoney(Mean(filtered_df, RATE))
    ELSE FormatMoney(FloatOfInt(0))

\* line 421 and its format on line 429: the total distance
total_distance(filtered_df) ==
    IF Len(filtered_df) > 0 THEN FormatFloat0(SumSkipNa(filtered_df, DISTANCE)) ELSE FormatFloat0(0)

\* update_kpi_cards without the guard for the empty frame
KpiCards_NoEmptyGuard(d, s) ==
    LET filtered_df == apply_filters(d, s)
    IN  << FormatInt(Len(filtered_df)),
           avg_rate(filtered_df),
           total_distance(filtered_df),
           ToString(high_priority(filtered_df)),
           top_industry(filtered_df),
           conversion_rate(filtered_df) >>

\* the six strings update_kpi_cards returns
KpiCards(d, s) ==
    IF IsEmpty(d) THEN <<"0", "$0.00", "0", "0", "N/A", "0%">>
    ELSE LET filtered_df == apply_filters(d, s)
         IN  << FormatInt(Len(filtered_df)),
                avg_rate(filtered_df),
                total_distance(filtered_df),
                ToString(high_priority(filtered_df)),
                top_industry(filtered_df),
                conversion_rate(filtered_df) >>

\* frame[[columns]] : the rows restricted to the named columns
Project(rows, columns) == [i \in 1..Len(rows) |-> [c \in columns |-> rows[i][c]]]

\* go.Figure() with no data
EmptyFigure == [kind |-> "empty"]

\* the data of the seven figures update_charts returns
Charts(d, s) ==
    IF IsEmpty(d) THEN [i \in 1..7 |-> EmptyFigure]
    ELSE LET filtered_df == apply_filters(d, s)
         IN  << [kind |-> "bar", counts |-> ValueCounts(filtered_df, SOURCE)],
                [kind |-> "pie", counts |-> ValueCounts(filtered_df, SHIPMENT)],
                [kind |-> "bar", counts |-> ValueCounts(filtered_df, INDUSTRY)],
                [kind |-> "histogram", data |-> Project(filtered_df, {RATE, RATECAT})],
                [kind |-> "box", data |-> Project(filtered_df, {INDUSTRY, DISTANCE, PRIORITY})],
                [kind |-> "bar", counts |-> ValueCounts(filtered_df, COMMODITY)],
                [kind |-> "line", counts |-> GroupSize(filtered_df, DATE)] >>

TableColumns ==
    {"Customer ID", "Company Name", "Contact Person Name", "Email", "Phone",
     SHIPMENT, COMMODITY, INDUSTRY, SOURCE, DEST, DISTANCE, RATE, DATE, PRIORITY, STATUS}

\* update_table_data listing the whole table
TableData_Unfiltered(d, s) ==
    IF IsEmpty(d) THEN <<>> ELSE Project(d.rows, TableColumns)

\* the list of records update_table_data returns
TableData(d, s) ==
    IF IsEmpty(d) THEN <<>> ELSE Project(apply_filters(d, s), TableColumns)

\* a callback returning None
NoDownload == [filename |-> "<None>"]

\* what download_csv returns: the whole filtered frame as CSV
DownloadCsv(d, s, n_clicks) ==
    IF IsEmpty(d) \/ n_clicks = None THEN NoDownload
    ELSE [filename |-> "customer_intelligence.csv",
          columns |-> d.columns,
          rows |-> apply_filters(d, s)]

ContactColumns ==
    {"Company Name", "Contact Person Name", "Email", "Phone", INDUSTRY, SOURCE, PRIORITY}

\* download_contacts exporting the contacts of the whole table
DownloadContacts_Unfiltered(d, s, n_clicks) ==
    IF IsEmpty(d) \/ n_clicks = None THEN NoDownload
    ELSE [filename |-> "customer_contacts.csv",
          columns |-> ContactColumns,
          rows |-> Project(d.rows, ContactColumns)]

\* what download_contacts returns: the contact columns of the filtered frame as CSV
DownloadContacts(d, s, n_clicks) ==
    IF IsEmpty(d) \/ n_clicks = None THEN NoDownload
    ELSE [filename |-> "customer_contacts.csv",
          columns |-> ContactColumns,
          rows |-> Project(apply_filters(d, s), ContactColumns)]

---------------------------------------------------------------------------
(* The layout *)

\* datetime.now(), as a day number
Today == 100

\* the options of one dropdown: 'All' and the values of the column
DropdownOptions(d, col) == {"All"} \cup (IF IsEmpty(d) THEN {} ELSE Unique(d.rows, col))

\* a date property of a widget: NaT is serialised as None
DateOrNone(x) == IF x = NaT THEN None ELSE x

\* app.layout: the filter widgets and their initial values
Layout(d) ==
    [industry_options |-> DropdownOptions(d, INDUSTRY),
     shipment_options |-> DropdownOptions(d, SHIPMENT),
     commodity_options |-> DropdownOptions(d, COMMODITY),
     priority_options |-> DropdownOptions(d, PRIORITY),
     source_country_options |-> DropdownOptions(d, SOURCE),
     destination_country_options |-> DropdownOptions(d, DEST),
     rate_min |-> IF ~IsEmpty(d) THEN ColMin(d.rows, RATE) ELSE 0,
     rate_max |-> IF ~IsEmpty(d) THEN ColMax(d.rows, RATE) ELSE 5000,
     start_date |-> IF ~IsEmpty(d) THEN DateOrNone(ColMin(d.rows, DATE)) ELSE Today - 60,
     end_date |-> IF ~IsEmpty(d) THEN DateOrNone(ColMax(d.rows, DATE)) ELSE Today]

\* the exception the construction of the layout raises, "" when it raises none
LayoutError(d) ==
    IF INDUSTRY \notin d.columns THEN "KeyError"
    ELSE IF ~IsEmpty(d) /\ ColMax(d.rows, RATE) = NaN THEN "ValueError"
    ELSE ""

---------------------------------------------------------------------------
(* The arguments the browser sends with a callback *)

\* the widgets, in the order of the callbacks' parameters; the date picker feeds two
Widgets ==
    << "industry_filter", "shipment_filter", "commodity_filter", "priority_filter",
       "source_country_filter", "destination_country_filter", "rate_range", "date_range" >>

\* the stops of the rate slider the model moves the handles to
RateStops == {2000}

\* the days the date picker is set to
Dates == {2}

\* n_clicks of a download button: None before the first click
ClickValues == {None, 1}

\* the values widget w can send
Choices(w, l) ==
    CASE w = "industry_filter" -> l.industry_options \cup {NoneStr}
      [] w = "shipment_filter" -> l.shipment_options \cup {NoneStr}
      [] w = "commodity_filter" -> l.commodity_options \cup {NoneStr}
      [] w = "priority_filter" -> l.priority_options \cup {NoneStr}
      [] w = "source_country_filter" -> l.source_country_options \cup {NoneStr}
      [] w = "destination_country_filter" -> l.destination_country_options \cup {NoneStr}
      [] w = "rate_range" ->
            { <<lo, hi>> : lo \in RateStops \cup {l.rate_min}, hi \in RateStops \cup {l.rate_max} }
      [] w = "date_range" ->
            { <<s, e>> : s \in Dates \cup {None}, e \in Dates \cup {None} }
            \cup { <<l.start_date, l.end_date>> }

\* the value of widget w that constrains nothing
NoConstraint(w, l) ==
    CASE w = "rate_range" -> <<l.rate_min, l.rate_max>>
      [] w = "date_range" -> <<None, None>>
      [] OTHER -> "All"

RECURSIVE ArgTuples(_, _, _)
\* the values of widgets k.. with at most budget of them off their no-constraint value
ArgTuples(k, budget, l) ==
    IF k > Len(Widgets) THEN { <<>> }
    ELSE LET w == Widgets[k]
         IN  { <<NoConstraint(w, l)>> \o t : t \in ArgTuples(k + 1, budget, l) }
             \cup
             (IF budget = 0 THEN {}
              ELSE { <<v>> \o t : v \in Choices(w, l) \ {NoConstraint(w, l)},
                                  t \in ArgTuples(k + 1, budget - 1, l) })

\* the filter arguments of a callback
Selection(t) ==
    [industry_filter |-> t[1],
     shipment_filter |-> t[2],
     commodity_filter |-> t[3],
     priority_filter |-> t[4],
     source_country_filter |-> t[5],
     destination_country_filter |-> t[6],
     rate_range |-> t[7],
     start_date |-> t[8][1],
     end_date |-> t[8][2]]

Selections(l) == { Selection(t) : t \in ArgTuples(1, MaxActive, l) }

---------------------------------------------------------------------------
(* The state machine *)

\* no callback is running
NoOut == [op |-> "none"]

Init ==
    /\ pc = "load"
    /\ fileExists \in BOOLEAN
    /\ csv \in (IF fileExists THEN Tables ELSE {<<>>})
    /\ df = EmptyFrame
    /\ layout = [built |-> FALSE]
    /\ out = NoOut

\* lines 18-26: read the CSV, or substitute an empty frame when it is missing
Load ==
    /\ pc = "load"
    /\ df' = IF fileExists THEN [columns |-> CsvColumns, rows |-> csv] ELSE EmptyFrame
    /\ pc' = "derive"
    /\ UNCHANGED <<fileExists, csv, layout, out>>

\* lines 50-51: add the Rate Category column unless the frame is empty
AddRateCategory ==
    /\ pc = "derive"
    /\ df' = IF ~IsEmpty(df)
             THEN [columns |-> df.columns \cup {RATECAT}, rows |-> WithRateCategory(df.rows)]
             ELSE df
    /\ pc' = "layout"
    /\ UNCHANGED <<fileExists, csv, layout, out>>

\* lines 54-352: build app.layout; an exception ends the process
BuildLayout ==
    /\ pc = "layout"
    /\ IF LayoutError(df) # ""
       THEN /\ pc' = "crashed"
            /\ out' = [op |-> "startup", raised |-> LayoutError(df)]
            /\ UNCHANGED layout
       ELSE /\ pc' = "serving"
            /\ layout' = Layout(df)
            /\ out' = NoOut
    /\ UNCHANGED <<fileExists, csv, df>>

update_kpi_cards ==
    /\ pc = "serving" /\ out = NoOut
    /\ \E s \in Selections(layout) :
          /\ out' = [op |-> "update_kpi_cards", args |-> s, result |-> KpiCards(df, s)]
          /\ df' = IF IsEmpty(df) THEN df ELSE FrameAfterFilters(df, s)
    /\ UNCHANGED <<pc, fileExists, csv, layout>>

update_charts ==
    /\ pc = "serving" /\ out = NoOut
    /\ \E s \in Selections(layout) :
          /\ out' = [op |-> "update_charts", args |-> s, result |-> Charts(df, s)]
          /\ df' = IF IsEmpty(df) THEN df ELSE FrameAfterFilters(df, s)
    /\ UNCHANGED <<pc, fileExists, csv, layout>>

update_table_data ==
    /\ pc = "serving" /\ out = NoOut
    /\ \E s \in Selections(layout) :
          /\ out' = [op |-> "update_table_data", args |-> s, result |-> TableData(df, s)]
          /\ df' = IF IsEmpty(df) THEN df ELSE FrameAfterFilters(df, s)
    /\ UNCHANGED <<pc, fileExists, csv, layout>>

download_csv ==
    /\ pc = "serving" /\ out = NoOut
    /\ \E s \in Selections(layout) : \E n_clicks \in ClickValues :
          /\ out' = [op |-> "download_csv", args |-> s, n_clicks |-> n_clicks,
                    result |-> DownloadCsv(df, s, n_clicks)]
          /\ df' = IF IsEmpty(df) \/ n_clicks = None THEN df ELSE FrameAfterFilters(df, s)
    /\ UNCHANGED <<pc, fileExists, csv, layout>>

download_contacts ==
    /\ pc = "serving" /\ out = NoOut
    /\ \E s \in Selections(layout) : \E n_clicks \in ClickValues :
          /\ out' = [op |-> "download_contacts", args |-> s, n_clicks |-> n_clicks,
                    result |-> DownloadContacts(df, s, n_clicks)]
          /\ df' = IF IsEmpty(df) \/ n_clicks = None THEN df ELSE FrameAfterFilters(df, s)
    /\ UNCHANGED <<pc, fileExists, csv, layout>>

\* the answer of the running callback goes back to the browser
Respond ==
    /\ pc = "serving" /\ out # NoOut
    /\ out' = NoOut
    /\ UNCHANGED <<pc, fileExists, csv, df, layout>>

Next ==
    \/ Load
    \/ AddRateCategory
    \/ BuildLayout
    \/ update_kpi_cards
    \/ update_charts
    \/ update_table_data
    \/ download_csv
    \/ download_contacts
    \/ Respond

Spec == Init /\ [][Next]_vars

---------------------------------------------------------------------------
(* Properties *)

\* a download_csv that was clicked on a non-empty frame has answered: its rows are
\* exactly what apply_filters returned for out.args
FilterAnswered ==
    /\ pc = "serving"
    /\ out.op = "download_csv"
    /\ out.n_clicks # None
    /\ ~IsEmpty(df)

\* update_kpi_cards has answered
KpiAnswered == pc = "serving" /\ out.op = "update_kpi_cards"

\* all six dropdowns of s are on 'All'
AllCategoriesAll(s) ==
    /\ s.industry_filter = "All"
    /\ s.shipment_filter = "All"
    /\ s.commodity_filter = "All"
    /\ s.priority_filter = "All"
    /\ s.source_country_filter = "All"
    /\ s.destination_country_filter = "All"

\* every constraint of s is the no-constraint value for the frame d
NoConstraintAtAll(d, s) ==
    /\ AllCategoriesAll(s)
    /\ s.start_date = None /\ s.end_date = None
    /\ s.rate_range = <<ColMin(d.rows, RATE), ColMax(d.rows, RATE)>>

\* the rate of row r is a number in [lo, hi]
RateWithin(r, lo, hi) == r[RATE] # NaN /\ lo <= r[RATE] /\ r[RATE] <= hi

\* the inquiry date of row r is a date in [lo, hi]
DateWithin(r, lo, hi) == r[DATE] # NaT /\ lo <= r[DATE] /\ r[DATE] <= hi

\* row r satisfies every active constraint of s
Satisfies(r, s) ==
    /\ s.industry_filter = "All" \/ r[INDUSTRY] = s.industry_filter
    /\ s.shipment_filter = "All" \/ r[SHIPMENT] = s.shipment_filter
    /\ s.commodity_filter = "All" \/ r[COMMODITY] = s.commodity_filter
    /\ s.priority_filter = "All" \/ r[PRIORITY] = s.priority_filter
    /\ s.source_country_filter = "All" \/ r[SOURCE] = s.source_country_filter
    /\ s.destination_country_filter = "All" \/ r[DEST] = s.destination_country_filter
    /\ RateWithin(r, s.rate_range[1], s.rate_range[2])
    /\ (s.start_date # None /\ s.end_date # None) => DateWithin(r, s.start_date, s.end_date)

\* the constraints of apply_filters applied in the opposite order
FiltersReversed(d, s) ==
    LET g1 == FilterDate(d.rows, s.start_date, s.end_date)
        g2 == FilterRate(g1, s.rate_range)
        g3 == FilterCategory(g2, DEST, s.destination_country_filter)
        g4 == FilterCategory(g3, SOURCE, s.source_country_filter)
        g5 == FilterCategory(g4, PRIORITY, s.priority_filter)
        g6 == FilterCategory(g5, COMMODITY, s.commodity_filter)
        g7 == FilterCategory(g6, SHIPMENT, s.shipment_filter)
    IN  FilterCategory(g7, INDUSTRY, s.industry_filter)

\* C1: when data/leads.csv is missing the process does not crash: it goes on through
\* the derived column and the layout and reaches the serving state.
C1_MissingFileDoesNotCrash == ~fileExists => pc # "crashed"

\* C2: with all six dropdowns on 'All', the date range unset and the rate range at
\* [minimum rate, maximum rate] of the table, apply_filters returns exactly the rows
\* of the loaded table.
C2_NoConstraintReturnsAll ==
    (FilterAnswered /\ NoConstraintAtAll(df, out.args)) => out.result.rows = df.rows

\* C3: every row apply_filters returns has lo <= rate <= hi, whatever the other
\* filters; and when the rate range is the only active constraint the rows returned
\* are all the rows of the table with lo <= rate <= hi.
C3_RateRangeInclusive ==
    FilterAnswered =>
        LET lo == out.args.rate_range[1]
            hi == out.args.rate_range[2]
            res == out.result.rows
        IN  /\ \A i \in 1..Len(res) : RateWithin(res[i], lo, hi)
            /\ (AllCategoriesAll(out.args) /\ out.args.start_date = None
                                           /\ out.args.end_date = None)
               => res = SelectSeq(df.rows, LAMBDA r : RateWithin(r, lo, hi))

\* C3 witness: only the rate range constrains, it keeps a row and leaves one out
C3_Witness ==
    /\ FilterAnswered
    /\ AllCategoriesAll(out.args) /\ out.args.start_date = None /\ out.args.end_date = None
    /\ out.args.rate_range = <<2000, 2000>>
    /\ Len(out.result.rows) = 1
    /\ Len(df.rows) = 3

\* C4: on a non-empty table apply_filters returns exactly the rows that satisfy the
\* conjunction of the active constraints, in the table's order, and applying the
\* constraints in the opposite order gives the same rows.
C4_ConjunctionOfConstraints ==
    FilterAnswered =>
        /\ out.result.rows = SelectSeq(df.rows, LAMBDA r : Satisfies(r, out.args))
        /\ out.result.rows = FiltersReversed(df, out.args)

\* C4 witness: two constraints are active, a row passes both and a row fails only one
C4_Witness ==
    /\ FilterAnswered
    /\ out.args.industry_filter = "Tech"
    /\ out.args.destination_country_filter = "USA"
    /\ Len(out.result.rows) = 1
    /\ \E i \in 1..Len(df.rows) :
          df.rows[i][INDUSTRY] = "Tech" /\ df.rows[i][DEST] = "UK" /\ df.rows[i][RATE] # NaN

\* C5: filtering the subset apply_filters returned by the same selection returns
\* that same subset, rows and order.
C5_FilterIdempotent ==
    FilterAnswered =>
        apply_filters([columns |-> df.columns, rows |-> out.result.rows], out.args)
            = out.result.rows

\* C5 witness: a filter that dropped a row and kept two is applied again
C5_Witness ==
    /\ FilterAnswered
    /\ Len(df.rows) = 3
    /\ Len(out.result.rows) = 2
    /\ out.args.priority_filter = "All"
    /\ out.args.industry_filter = "Tech"

\* what update_kpi_cards returns on an empty table
KpiDefaults == <<"0", "$0.00", "0", "0", "N/A", "0%">>

\* C6: on an empty loaded table, for every selection, update_kpi_cards returns the
\* documented defaults, apply_filters returns the empty table, and every callback
\* answers (empty table data, empty figures, no download) without raising.
C6_EmptyTableDefaults ==
    (pc = "serving" /\ IsEmpty(df) /\ out # NoOut) =>
        /\ "raised" \notin DOMAIN out
        /\ apply_filters(df, out.args) = <<>>
        /\ out.op = "update_kpi_cards" => out.result = KpiDefaults
        /\ out.op = "update_table_data" => out.result = <<>>
        /\ out.op = "update_charts" => \A i \in 1..7 : out.result[i] = EmptyFigure
        /\ out.op \in {"download_csv", "download_contacts"} => out.result = NoDownload

\* C6 witness: the table is empty and update_kpi_cards answers a cleared dropdown
C6_Witness ==
    /\ KpiAnswered
    /\ IsEmpty(df)
    /\ out.args.industry_filter = NoneStr
    /\ out.result = KpiDefaults

\* C7: when the table is not empty and the selection matches no row, update_kpi_cards
\* returns the same six outputs as for an empty table: "0", "$0.00", "0", "0", "N/A"
\* and "0%".
C7_EmptySubsetDefaults ==
    (KpiAnswered /\ ~IsEmpty(df) /\ apply_filters(df, out.args) = <<>>)
        => out.result = KpiDefaults

\* the number of rows of f whose column col is v
Occurrences(f, col, v) == Cardinality({ i \in 1..Len(f) : f[i][col] = v })

\* v is a most frequent Industry Type of the rows f
MostFrequent(f, v) ==
    /\ \E i \in 1..Len(f) : f[i][INDUSTRY] = v
    /\ \A j \in 1..Len(f) : Occurrences(f, INDUSTRY, v) >= Occurrences(f, INDUSTRY, f[j][INDUSTRY])

\* C8 as stated: the top industry is a most frequent Industry Type of the subset, and
\* among the most frequent ones it is the one that occurs first in the row order.
C8_TopIndustryFirstSeen ==
    (KpiAnswered /\ ~IsEmpty(df) /\ apply_filters(df, out.args) # <<>>) =>
        LET f == apply_filters(df, out.args)
            first == CHOOSE i \in 1..Len(f) :
                         /\ MostFrequent(f, f[i][INDUSTRY])
                         /\ \A j \in 1..(i - 1) : ~MostFrequent(f, f[j][INDUSTRY])
        IN  out.result[5] = f[first][INDUSTRY]

\* C8 amended: the top industry is a most frequent Industry Type of the subset, and
\* among the most frequent ones it is the least in the order of strings, wherever
\* it stands in the rows.
C8_TopIndustrySorted ==
    (KpiAnswered /\ ~IsEmpty(df) /\ apply_filters(df, out.args) # <<>>) =>
        LET f == apply_filters(df, out.args)
        IN  /\ MostFrequent(f, out.result[5])
            /\ \A j \in 1..Len(f) :
                  MostFrequent(f, f[j][INDUSTRY]) => StrRank(out.result[5]) <= StrRank(f[j][INDUSTRY])

\* C8 witness: two industries tie, the first row holds the greater one, the lesser wins
C8_Witness ==
    /\ KpiAnswered /\ ~IsEmpty(df)
    /\ Len(apply_filters(df, out.args)) = 2
    /\ apply_filters(df, out.args)[1][INDUSTRY] = "Tech"
    /\ apply_filters(df, out.args)[2][INDUSTRY] = "Retail"
    /\ out.result[5] = "Retail"

\* C9: once the derived column is added, every record's Rate Category follows the
\* fixed thresholds: High Value when rate >= 3000, Medium Value when
\* 1500 <= rate < 3000, Low Value when rate < 1500; every record has exactly one of
\* the three; and rates [1000, 2000, 3000] give [Low, Medium, High].
C9_RateCategoryThresholds ==
    (pc \in {"layout", "serving", "crashed"} /\ ~IsEmpty(df)) =>
        /\ \A i \in 1..Len(df.rows) :
              LET rate == df.rows[i][RATE]
                  tier == df.rows[i][RATECAT]
              IN  /\ tier \in {"High Value", "Medium Value", "Low Value"}
                  /\ rate # NaN =>
                        /\ tier = "High Value" <=> rate >= 3000
                        /\ tier = "Medium Value" <=> (1500 <= rate /\ rate < 3000)
                        /\ tier = "Low Value" <=> rate < 1500
        /\ [i \in 1..Len(df.rows) |-> df.rows[i][RATE]] = <<1000, 2000, 3000>>
              => [i \in 1..Len(df.rows) |-> df.rows[i][RATECAT]]
                     = <<"Low Value", "Medium Value", "High Value">>

\* C9 witness: the table with rates [1000, 2000, 3000] is served with its tiers
C9_Witness ==
    /\ pc = "serving"
    /\ [i \in 1..Len(df.rows) |-> df.rows[i][RATE]] = <<1000, 2000, 3000>>
    /\ [i \in 1..Len(df.rows) |-> df.rows[i][RATECAT]]
           = <<"Low Value", "Medium Value", "High Value">>

\* C10: the high-urgency output is the number of rows of the filtered subset whose
\* Priority Level is High or Urgent; it never exceeds the row count of the subset; for
\* three rows with priorities Low, High, Urgent and no active constraint it is 2.
C10_HighUrgencyCount ==
    (KpiAnswered /\ ~IsEmpty(df)) =>
        LET f == apply_filters(df, out.args)
            n == Cardinality({ i \in 1..Len(f) : f[i][PRIORITY] = "High" \/ f[i][PRIORITY] = "Urgent" })
        IN  /\ out.result[4] = ToString(n)
            /\ n <= Len(f)
            /\ ( /\ Len(df.rows) = 3
                 /\ { df.rows[i][PRIORITY] : i \in 1..3 } = {"Low", "High", "Urgent"}
                 /\ f = df.rows )
               => out.result[4] = "2"

\* C10 witness: Low, High, Urgent with no active constraint gives 2
C10_Witness ==
    /\ KpiAnswered
    /\ [i \in 1..Len(df.rows) |-> df.rows[i][PRIORITY]] = <<"Low", "High", "Urgent">>
    /\ NoConstraintAtAll(df, out.args)
    /\ out.result[4] = "2"
    /\ out.result[1] = "3"

\* the text of x percent with one decimal, x given in tenths
PercentText(tenths) == ToString(tenths \div 10) \o "." \o ToString(tenths % 10) \o "%"

\* C11: the conversion-rate output is the share, in percent between 0 and 100 and
\* shown with one decimal, of the rows of the filtered subset whose Status is
\* Closed Won or Negotiating, taken over the subset's row count; on an empty subset
\* nothing is divided and the rate is 0.
C11_ConversionRate ==
    (KpiAnswered /\ ~IsEmpty(df)) =>
        LET f == apply_filters(df, out.args)
            n == Len(f)
            c == Cardinality({ i \in 1..n : f[i][STATUS] = "Closed Won"
                                            \/ f[i][STATUS] = "Negotiating" })
        IN  IF n = 0 THEN out.result[6] = PercentText(0)
            ELSE \E t \in { (1000 * c) \div n, (1000 * c) \div n + 1 } :
                    /\ 0 <= t /\ t <= 1000
                    /\ 2 * (IF t * n >= 1000 * c THEN t * n - 1000 * c ELSE 1000 * c - t * n) <= n
                    /\ out.result[6] = PercentText(t)

\* C11 witness: two of three filtered rows are converted, one of them Negotiating
C11_Witness ==
    /\ KpiAnswered /\ ~IsEmpty(df)
    /\ Len(apply_filters(df, out.args)) = 3
    /\ \E i \in 1..3 : apply_filters(df, out.args)[i][STATUS] = "Negotiating"
    /\ out.result[6] = "66.7%"

\* the frame the module holds right after startup, for the file csv
StartupFrame ==
    IF csv = <<>> THEN [columns |-> CsvColumns, rows |-> <<>>]
    ELSE [columns |-> CsvColumns \cup {RATECAT}, rows |-> WithRateCategory(csv)]

\* C12: while the process serves, whatever callbacks have run with whatever
\* selections, the loaded table holds the rows and values it held right after startup
\* (the rows of the file, each with its Rate Category), and the answer of a callback is
\* the one that table and the callback's own arguments give.
C12_LoadedTableReadOnly ==
    pc = "serving" =>
        /\ df = StartupFrame
        /\ out.op = "update_kpi_cards" => out.result = KpiCards(StartupFrame, out.args)
        /\ out.op = "update_charts" => out.result = Charts(StartupFrame, out.args)
        /\ out.op = "update_table_data" => out.result = TableData(StartupFrame, out.args)
        /\ out.op = "download_csv"
              => out.result = DownloadCsv(StartupFrame, out.args, out.n_clicks)
        /\ out.op = "download_contacts"
              => out.result = DownloadContacts(StartupFrame, out.args, out.n_clicks)

\* C12 witness: a callback has produced a view with fewer rows than the table, and the
\* table still has all the rows of the file
C12_Witness ==
    /\ FilterAnswered
    /\ Len(csv) = 3
    /\ Len(out.result.rows) = 1
    /\ df.rows # out.result.rows
    /\ Len(df.rows) = 3

\* the rows of the loaded table that satisfy the active constraints of s
Subset(s) == SelectSeq(df.rows, LAMBDA r : Satisfies(r, s))

\* C13: download_csv exports every row and every column of the subset the current
\* selection gives; download_contacts exports the same rows in the same order with
\* exactly the seven contact columns; both return nothing when the table is empty or
\* the button was not clicked.
C13_ExportsOfTheSubset ==
    (pc = "serving" /\ out.op \in {"download_csv", "download_contacts"}) =>
        IF IsEmpty(df) \/ out.n_clicks = None THEN out.result = NoDownload
        ELSE LET sub == Subset(out.args)
                 rows == out.result.rows
             IN  /\ Len(rows) = Len(sub)
                 /\ out.op = "download_csv" =>
                       /\ out.result.columns = CsvColumns \cup {RATECAT}
                       /\ rows = sub
                 /\ out.op = "download_contacts" =>
                       /\ out.result.columns =
                             {"Company Name", "Contact Person Name", "Email", "Phone",
                              "Industry Type", "Source Location / Country", "Priority Level"}
                       /\ \A i \in 1..Len(rows) :
                             /\ DOMAIN rows[i] = out.result.columns
                             /\ \A c \in out.result.columns : rows[i][c] = sub[i][c]

\* C13 witness: the contacts of two of three rows are exported, in the table's order
C13_Witness ==
    /\ pc = "serving" /\ out.op = "download_contacts" /\ out.n_clicks # None
    /\ Len(df.rows) = 3
    /\ Len(out.result.rows) = 2
    /\ out.result.rows[1]["Company Name"] = "Company 3"
    /\ out.result.rows[2]["Company Name"] = "Company 1"

\* row r satisfies the constraints of s other than the date range
SatisfiesButDate(r, s) == Satisfies(r, [s EXCEPT !.start_date = None, !.end_date = None])

\* C14: the date range constrains only when both a start and an end date are given:
\* then every returned row has start <= inquiry date <= end; when either is missing
\* no row is filtered by date.
C14_DateRangeNeedsBothEnds ==
    FilterAnswered =>
        LET a == out.args
            res == out.result.rows
        IN  IF a.start_date # None /\ a.end_date # None
            THEN /\ \A i \in 1..Len(res) : DateWithin(res[i], a.start_date, a.end_date)
                 /\ res = SelectSeq(df.rows, LAMBDA r : /\ SatisfiesButDate(r, a)
                                                        /\ DateWithin(r, a.start_date, a.end_date))
            ELSE res = SelectSeq(df.rows, LAMBDA r : SatisfiesButDate(r, a))

\* C14 witness: only a start date is given and a row dated before it is returned
C14_Witness ==
    /\ FilterAnswered
    /\ out.args.start_date = 2 /\ out.args.end_date = None
    /\ \E i \in 1..Len(out.result.rows) : out.result.rows[i][DATE] = 1
    /\ \E i \in 1..Len(out.result.rows) : out.result.rows[i][DATE] = NaT

\* C14 witness of the active range: both ends given, a row in the range is kept and
\* rows before it, after it and without a date are left out
C14_WitnessBothEnds ==
    /\ FilterAnswered
    /\ out.args.start_date = 2 /\ out.args.end_date = 2
    /\ Len(out.result.rows) = 1
    /\ Len(df.rows) = 3

RECURSIVE SumOfCounts(_)
\* the sum of the counts of a grouping
SumOfCounts(counts) ==
    IF DOMAIN counts = {} THEN 0
    ELSE LET k == CHOOSE k \in DOMAIN counts : TRUE
         IN  counts[k] + SumOfCounts([j \in DOMAIN counts \ {k} |-> counts[j]])

\* C15: on a non-empty table every output is computed over the subset the selection
\* gives: the total-customers KPI, the rows of update_table_data and the rows exported
\* by download_csv and download_contacts all number the rows of that subset, and the
\* counts by source country, shipment requirement, industry and commodity, and by
\* inquiry date when no row of the subset lacks a date, each sum to that number.
C15_OneSubsetForAllOutputs ==
    (pc = "serving" /\ ~IsEmpty(df) /\ out # NoOut) =>
        LET sub == Subset(out.args)
            n == Len(sub)
        IN  /\ out.op = "update_kpi_cards" => out.result[1] = ToString(n)
            /\ out.op = "update_table_data" => Len(out.result) = n
            /\ (out.op \in {"download_csv", "download_contacts"} /\ out.n_clicks # None)
                  => Len(out.result.rows) = n
            /\ out.op = "update_charts" =>
                  /\ \A k \in {1, 2, 3, 6} : SumOfCounts(out.result[k].counts) = n
                  /\ (\A i \in 1..n : sub[i][DATE] # NaT)
                        => SumOfCounts(out.result[7].counts) = n
                  /\ SumOfCounts(out.result[7].counts) <= n

\* C15 witness: update_charts answers for a subset of two of three rows, all dated
C15_Witness ==
    /\ pc = "serving" /\ out.op = "update_charts"
    /\ Len(df.rows) = 3
    /\ Len(Subset(out.args)) = 2
    /\ \A i \in 1..2 : Subset(out.args)[i][DATE] # NaT
    /\ SumOfCounts(out.result[1].counts) = 2
    /\ SumOfCounts(out.result[7].counts) = 2
    /\ Cardinality(DOMAIN out.result[7].counts) = 2

====
